---------------------------- MODULE Spec2Model ----------------------------
(***************************************************************************)
(* Model of src/src/http/http.ts: the fetch wrapper `http` (get, post,     *)
(* put, patch, delete), its `request` pipeline and `buildUrl`.             *)
(*                                                                         *)
(* One invocation of a verb runs synchronously up to the `await fetch`,    *)
(* is resumed when the transport settles, and - when the response claims   *)
(* JSON - is suspended once more on `await response.json()`.               *)
(***************************************************************************)
EXTENDS Integers, Sequences, FiniteSets, TLC

VARIABLES
    pc,            \* position of the invocation: idle, fetching, decoding, returned, threw
    args,          \* what the caller passed, kept until fetch resolves
    inflight,      \* the (url, init) handed to fetch, kept while fetch is pending
    callerSignal,  \* the AbortSignal the caller put in options: none, live, aborted
    tsignal,       \* TRUE when the transport was handed the caller's signal
    response,      \* the Response fetch resolved with
    outcome,       \* how the promise returned by the verb settled
    steps          \* history of the steps the invocation went through

vars == <<pc, args, inflight, callerSignal, tsignal, response, outcome, steps>>

(***************************************************************************)
(* Bounds                                                                  *)
(***************************************************************************)
\* largest number of entries of a `params` mapping
MaxParams == 1

(***************************************************************************)
(* JavaScript values                                                       *)
(***************************************************************************)
Undefined == [t |-> "undefined"]
Null      == [t |-> "null"]
False     == [t |-> "boolean", b |-> FALSE]
True      == [t |-> "boolean", b |-> TRUE]
Num(n)    == [t |-> "number", n |-> n]
\* a string is the sequence of the pieces of its text
Str(s)    == [t |-> "string", text |-> s]
\* a plain object is its own enumerable properties, in insertion order
Obj(e)    == [t |-> "object", entries |-> e]
Arr(a)    == [t |-> "array", items |-> a]
FormDataV == [t |-> "FormData"]
BlobV     == [t |-> "Blob"]
\* a Headers instance keeps its list in an internal slot, not in properties
HeadersV(l) == [t |-> "Headers", list |-> l]
SignalV   == [t |-> "AbortSignal"]
None      == [t |-> "none"]

SeqRange(s) == {s[i] : i \in 1..Len(s)}

\* Object.entries / spread: the own enumerable properties of a value
OwnEntries(v) == IF v.t = "object" THEN v.entries ELSE <<>>

Keys(o) == {OwnEntries(o)[i][1] : i \in 1..Len(OwnEntries(o))}

Has(o, k) == k \in Keys(o)

\* o[k], undefined when o has no such property
Get(o, k) ==
    IF Has(o, k)
    THEN LET i == CHOOSE j \in 1..Len(o.entries) : o.entries[j][1] = k
         IN  o.entries[i][2]
    ELSE Undefined

\* o[k] = v: an existing property keeps its place, a new one goes last
Put(o, k, v) ==
    IF Has(o, k)
    THEN Obj([i \in 1..Len(o.entries) |->
                 IF o.entries[i][1] = k THEN <<k, v>> ELSE o.entries[i]])
    ELSE Obj(Append(o.entries, <<k, v>>))

RECURSIVE PutAll(_, _)
PutAll(o, es) ==
    IF es = <<>> THEN o
    ELSE PutAll(Put(o, es[1][1], es[1][2]), Tail(es))

\* { ...target, ...src }
Spread(target, src) == PutAll(target, OwnEntries(src))

\* const { k1, k2, ...rest } = o
Omit(o, ks) ==
    Obj(SelectSeq(OwnEntries(o), LAMBDA e : e[1] \notin ks))


(***************************************************************************)
(* Platform primitives used by buildUrl: URL, URLSearchParams, String      *)
(***************************************************************************)
\* A URL text is the sequence of its pieces:
\*   <<origin-and-path>>  or  <<origin-and-path, "?", k, "=", v, "&", k, "=", v, ...>>
AbsoluteBases == {"https://api.example.com/users"}

RECURSIVE ParseQuery(_)
ParseQuery(ts) ==
    IF Len(ts) < 3 THEN <<>>
    ELSE <<<<ts[1], ts[3]>>>> \o ParseQuery(SubSeq(ts, 5, Len(ts)))

\* new URL(path): throws TypeError unless path is an absolute URL
URLValid(path) == Len(path) > 0 /\ path[1] \in AbsoluteBases

URLParse(path) ==
    [base |-> path[1], query |-> ParseQuery(SubSeq(path, 3, Len(path)))]

RECURSIVE SerializeQuery(_)
SerializeQuery(q) ==
    IF q = <<>> THEN <<>>
    ELSE <<q[1][1], "=", q[1][2]>>
         \o (IF Len(q) > 1 THEN <<"&">> ELSE <<>>)
         \o SerializeQuery(Tail(q))

\* url.toString()
URLToString(u) ==
    <<u.base>> \o (IF u.query = <<>> THEN <<>> ELSE <<"?">> \o SerializeQuery(u.query))

\* positions of the entries of q named k
Named(q, k) == {i \in 1..Len(q) : q[i][1] = k}

\* url.searchParams.set(k, v): the first entry named k takes the value and the
\* other entries named k are removed; with no such entry, one is appended
SearchParamsSet(q, k, v) ==
    IF Named(q, k) = {} THEN Append(q, <<k, v>>)
    ELSE LET first == CHOOSE i \in Named(q, k) : \A j \in Named(q, k) : i <= j
             RECURSIVE Walk(_)
             Walk(i) ==
                 IF i > Len(q) THEN <<>>
                 ELSE (IF i = first THEN <<<<k, v>>>>
                       ELSE IF q[i][1] = k THEN <<>>
                       ELSE <<q[i]>>) \o Walk(i + 1)
         IN  Walk(1)

\* String(value) for the scalars a params mapping holds
String(v) ==
    CASE v.t = "string"  -> v.text[1]
      [] v.t = "number"  -> ToString(v.n)
      [] v.t = "boolean" -> IF v.b THEN "true" ELSE "false"
      [] OTHER           -> v.t

(***************************************************************************)
(* buildUrl (http.ts 39-51)                                                *)
(***************************************************************************)
\* mutant of SetParams: the test of line 44 is missing
RECURSIVE SetParams_noUndefinedCheck(_, _)
SetParams_noUndefinedCheck(q, es) ==
    IF es = <<>> THEN q
    ELSE SetParams_noUndefinedCheck(
             SearchParamsSet(q, es[1][1], String(es[1][2])), Tail(es))

\* the forEach of lines 43-47 over the entries es, applied to the query q
RECURSIVE SetParams(_, _)
SetParams(q, es) ==
    IF es = <<>> THEN q
    ELSE SetParams(IF es[1][2] # Undefined
                   THEN SearchParamsSet(q, es[1][1], String(es[1][2]))
                   ELSE q,
                   Tail(es))

\* [threw |-> TRUE] when new URL(path) throws, else the composed URL text
buildUrl(path, params) ==
    IF ~URLValid(path) THEN [threw |-> TRUE, error |-> "TypeError"]
    ELSE LET fullUrl == URLParse(path)
             q == IF params # Undefined
                  THEN SetParams(fullUrl.query, OwnEntries(params))
                  ELSE fullUrl.query
         IN  [threw |-> FALSE, value |-> URLToString([base |-> fullUrl.base, query |-> q])]

(***************************************************************************)
(* Platform primitive JSON.stringify                                       *)
(***************************************************************************)
\* the pieces of the JSON text of v; a property whose value is undefined is
\* left out of an object and an undefined item of an array is written null
RECURSIVE JsonText(_)
JsonText(v) ==
    LET RECURSIVE Members(_, _)
        Members(es, started) ==
            IF es = <<>> THEN <<>>
            ELSE IF es[1][2] = Undefined THEN Members(Tail(es), started)
            ELSE (IF started THEN <<",">> ELSE <<>>)
                 \o <<"\"", es[1][1], "\"", ":">> \o JsonText(es[1][2])
                 \o Members(Tail(es), TRUE)
        RECURSIVE Items(_)
        Items(xs) ==
            IF xs = <<>> THEN <<>>
            ELSE (IF xs[1] = Undefined THEN <<"null">> ELSE JsonText(xs[1]))
                 \o (IF Len(xs) > 1 THEN <<",">> ELSE <<>>)
                 \o Items(Tail(xs))
    IN  CASE v.t = "null"    -> <<"null">>
          [] v.t = "boolean" -> IF v.b THEN <<"true">> ELSE <<"false">>
          [] v.t = "number"  -> <<ToString(v.n)>>
          [] v.t = "string"  -> <<"\"">> \o v.text \o <<"\"">>
          [] v.t = "array"   -> <<"[">> \o Items(v.items) \o <<"]">>
          [] v.t = "object"  -> <<"{">> \o Members(v.entries, FALSE) \o <<"}">>
          [] OTHER           -> <<"{", "}">>

\* JSON.stringify(v): a string, or undefined for undefined
JSONstringify(v) == IF v = Undefined THEN Undefined ELSE Str(JsonText(v))

(***************************************************************************)
(* request, up to the call of fetch (http.ts 53-75)                        *)
(***************************************************************************)
ContentTypeJson == Str(<<"application/json">>)

\* mutant of isJsonBody: the Blob test of line 65 is missing
isJsonBody_noBlobCheck(body) ==
    /\ body # Undefined
    /\ body.t # "FormData"

\* lines 62-65
isJsonBody(body) ==
    /\ body # Undefined
    /\ body.t # "FormData"
    /\ body.t # "Blob"

\* mutant of fetchOptions: params is not taken out of the options
fetchOptions_keepsParams(options) == Omit(options, {"body", "headers"})

\* line 58: const { params, body, headers, ...fetchOptions } = options
fetchOptions(options) == Omit(options, {"params", "body", "headers"})

\* lines 69-72: { ...(isJsonBody && { 'Content-Type': 'application/json' }), ...headers }
mergedHeaders(body, headers) ==
    Spread(Spread(Obj(<<>>),
                  IF isJsonBody(body)
                  THEN Obj(<< <<"Content-Type", ContentTypeJson>> >>)
                  ELSE False),
           headers)

\* line 73
finalBody(body) == IF isJsonBody(body) THEN JSONstringify(body) ELSE body

\* lines 67-75: the second argument of fetch
fetchInit(method, options) ==
    LET body    == Get(options, "body")
        headers == Get(options, "headers")
    IN  Spread(Obj(<< <<"method", Str(<<method>>)>>,
                      <<"headers", mergedHeaders(body, headers)>>,
                      <<"body", finalBody(body)>> >>),
               fetchOptions(options))

(***************************************************************************)
(* The transport's responses and the primitives request reads them with    *)
(***************************************************************************)
\* the text of a header value is its sequence of characters, so that
\* includes() is a search
JsonCT ==
    <<"a","p","p","l","i","c","a","t","i","o","n","/","j","s","o","n">>
JsonCharsetCT ==
    JsonCT \o <<";"," ","c","h","a","r","s","e","t","=","u","t","f","-","8">>
UpperJsonCT ==
    <<"A","p","p","l","i","c","a","t","i","o","n","/","J","S","O","N">>
HtmlCT ==
    <<"t","e","x","t","/","h","t","m","l">>

\* s.includes(needle)
Includes(s, needle) ==
    \E i \in 1..(Len(s) - Len(needle) + 1) :
        SubSeq(s, i, i + Len(needle) - 1) = needle

\* headers.get(name): the value of the header, null when there is none.
\* A Headers list holds lower-cased names.
HeadersGet(h, name) ==
    IF \E i \in 1..Len(h.list) : h.list[i][1] = name
    THEN h.list[CHOOSE i \in 1..Len(h.list) : h.list[i][1] = name][2]
    ELSE Null

\* the body texts a response may carry
UserText       == "{\"id\":1,\"name\":\"Alice\"}"
ErrorsText     == "[{\"field\":\"name\",\"message\":\"required\"}]"
NullText       == "null"
HtmlText       == "<html>Bad Gateway</html>"
EmptyText      == ""
BodyTexts      == {UserText, ErrorsText, NullText, HtmlText, EmptyText}

\* response.json(): fulfils with the decoded value of a JSON text and rejects
\* with a SyntaxError for any other text
JSONValid(text) == text \in {UserText, ErrorsText, NullText}

JSONparse(text) ==
    CASE text = UserText ->
           Obj(<< <<"id", Num(1)>>, <<"name", Str(<<"Alice">>)>> >>)
      [] text = ErrorsText ->
           Arr(<< Obj(<< <<"field", Str(<<"name">>)>>,
                         <<"message", Str(<<"required">>)>> >>) >>)
      [] text = NullText -> Null

Statuses == {201, 204, 299, 300, 422, 500}

StatusText(st) ==
    CASE st = 201 -> "Created"
      [] st = 204 -> "No Content"
      [] st = 300 -> "Multiple Choices"
      [] st = 422 -> "Unprocessable Entity"
      [] st = 500 -> "Internal Server Error"
      [] OTHER    -> ""

\* the content-type a response declares: none (null), or a header value
ResponseContentTypes ==
    {Null} \cup {Str(ct) : ct \in {JsonCT, JsonCharsetCT, UpperJsonCT, HtmlCT}}

\* the Response objects fetch may resolve with; ok is the transport's own flag
Responses ==
    { [t          |-> "Response",
       status     |-> st,
       statusText |-> StatusText(st),
       ok         |-> (st >= 200 /\ st <= 299),
       headers    |-> HeadersV(IF ct = Null THEN <<>>
                               ELSE << <<"content-type", ct>> >>),
       body       |-> b] :
      st \in Statuses, ct \in ResponseContentTypes, b \in BodyTexts }

(***************************************************************************)
(* request, after fetch resolved (http.ts 77-101)                          *)
(***************************************************************************)
\* mutant of claimsJson: the body is decoded for success statuses only
claimsJson_onlyWhenOk(r) ==
    LET contentType == HeadersGet(r.headers, "content-type")
    IN  r.ok /\ contentType # Null /\ Includes(contentType.text, JsonCT)

\* lines 77-78: contentType?.includes('application/json')
claimsJson(r) ==
    LET contentType == HeadersGet(r.headers, "content-type")
    IN  contentType # Null /\ Includes(contentType.text, JsonCT)

\* mutant of Result: ok is taken to mean "status below 400"
Result_okBelow400(r, data) ==
    [ok |-> r.status < 400, data |-> data, status |-> r.status,
     statusText |-> r.statusText, headers |-> r.headers, response |-> r]

\* how the promise a verb returns stands
Fulfilled(v) == [t |-> "fulfilled", value |-> v]
Rejected(e)  == [t |-> "rejected", error |-> e]
Pending      == [t |-> "pending"]

\* lines 83-101: the discriminated union
Result(r, data) ==
    IF r.ok
    THEN [ok |-> TRUE, data |-> data, status |-> r.status,
          statusText |-> r.statusText, headers |-> r.headers, response |-> r]
    ELSE [ok |-> FALSE, data |-> data, status |-> r.status,
          statusText |-> r.statusText, headers |-> r.headers, response |-> r]

(***************************************************************************)
(* What callers pass                                                       *)
(***************************************************************************)
Paths ==
    { <<"https://api.example.com/users">>,
      <<"https://api.example.com/users", "?", "role", "=", "guest">>,
      <<"/users">> }

ParamKeys   == {"role", "page"}
ParamValues == {Undefined, Str(<<"admin">>), Num(2)}

\* the params mappings of at most n entries
RECURSIVE ParamEntries(_)
ParamEntries(n) ==
    IF n = 0 THEN {<<>>}
    ELSE LET shorter == ParamEntries(n - 1)
         IN  shorter \cup
             { Append(es, <<k, v>>) :
                 es \in {e \in shorter : Len(e) = n - 1},
                 k \in ParamKeys, v \in ParamValues }

ParamsChoices ==
    {Obj(es) : es \in {e \in ParamEntries(MaxParams) :
                          \A i, j \in 1..Len(e) : i # j => e[i][1] # e[j][1]}}

TextPlain == Str(<<"text/plain">>)
Bearer    == Str(<<"Bearer token123">>)

HeadersChoices ==
    { Obj(<< <<"Authorization", Bearer>> >>),
      Obj(<< <<"Content-Type", TextPlain>> >>),
      Obj(<< <<"content-type", TextPlain>> >>),
      Obj(<< <<"Authorization", Bearer>>, <<"Content-Type", TextPlain>> >>),
      HeadersV(<< <<"content-type", TextPlain>> >>) }

Bodies ==
    { Undefined, Null, True, Num(42), Str(<<"hi">>),
      Obj(<< <<"name", Str(<<"Bob">>)>> >>),
      Arr(<< Num(1), Str(<<"a">>) >>),
      FormDataV, BlobV }

OptionBodies == { Obj(<< <<"name", Str(<<"Opt">>)>> >>) }

PassThroughChoices ==
    { <<>>,
      << <<"signal", SignalV>> >>,
      << <<"credentials", Str(<<"include">>)>>, <<"cache", Str(<<"no-store">>)>> >>,
      << <<"signal", SignalV>>, <<"mode", Str(<<"cors">>)>> >> }

\* an entry for key k unless the choice is to leave it out
Entry(k, choice) == IF choice = None THEN <<>> ELSE << <<k, choice>> >>

\* the RequestOptions objects (lines 13-16), and undefined for "no options"
OptionsChoices ==
    {Undefined} \cup
    { Obj(Entry("params", p) \o Entry("headers", h) \o Entry("body", b) \o rest) :
        p \in ParamsChoices \cup {None},
        h \in HeadersChoices \cup {None},
        b \in OptionBodies \cup {None},
        rest \in PassThroughChoices }

(***************************************************************************)
(* The invocation as a state machine                                       *)
(***************************************************************************)
Init ==
    /\ pc = "idle"
    /\ args = None
    /\ inflight = None
    /\ callerSignal = "none"
    /\ tsignal = FALSE
    /\ response = None
    /\ outcome = Pending
    /\ steps = <<>>

\* request(method, path, options) from its call to its first suspension
\* (lines 58-75). A throw of buildUrl rejects the promise at once.
request(method, path, options) ==
    LET url == buildUrl(path, Get(options, "params"))
    IN  IF url.threw
        THEN /\ pc' = "threw"
             /\ outcome' = Rejected(url.error)
             /\ steps' = <<"buildUrl:throw">>
             /\ inflight' = None
             /\ tsignal' = FALSE
             /\ UNCHANGED response
        ELSE LET init == fetchInit(method, options)
             IN  /\ pc' = "fetching"
                 /\ inflight' = [url |-> url.value, init |-> init]
                 /\ tsignal' = (Get(init, "signal") = SignalV)
                 /\ steps' = <<"buildUrl", "fetch">>
                 /\ UNCHANGED <<response, outcome>>

\* the caller's side of an invocation: its arguments, and the state of the
\* AbortSignal it passed, which it may have aborted already
Call(verb, path, body, options) ==
    /\ args' = [verb |-> verb, path |-> path, body |-> body, options |-> options]
    /\ callerSignal' \in (IF Has(options, "signal") THEN {"live", "aborted"} ELSE {"none"})

\* lines 105-106 and 117-118; options defaults to {} (line 56)
WithoutBody(options) == IF options = Undefined THEN Obj(<<>>) ELSE options

\* lines 108-115: { ...options, body }
WithBody(options, body) == Put(Spread(Obj(<<>>), options), "body", body)

get ==
    /\ pc = "idle"
    /\ \E path \in Paths, options \in OptionsChoices :
          /\ Call("get", path, Undefined, options)
          /\ request("GET", path, WithoutBody(options))

post ==
    /\ pc = "idle"
    /\ \E path \in Paths, body \in Bodies, options \in OptionsChoices :
          /\ Call("post", path, body, options)
          /\ request("POST", path, WithBody(options, body))

put ==
    /\ pc = "idle"
    /\ \E path \in Paths, body \in Bodies, options \in OptionsChoices :
          /\ Call("put", path, body, options)
          /\ request("PUT", path, WithBody(options, body))

patch ==
    /\ pc = "idle"
    /\ \E path \in Paths, body \in Bodies, options \in OptionsChoices :
          /\ Call("patch", path, body, options)
          /\ request("PATCH", path, WithBody(options, body))

delete ==
    /\ pc = "idle"
    /\ \E path \in Paths, options \in OptionsChoices :
          /\ Call("delete", path, Undefined, options)
          /\ request("DELETE", path, WithoutBody(options))

\* the caller aborts the controller of the signal it passed
Abort ==
    /\ pc \in {"fetching", "decoding"}
    /\ callerSignal = "live"
    /\ callerSignal' = "aborted"
    /\ UNCHANGED <<pc, args, inflight, tsignal, response, outcome, steps>>

\* the transport has been told to give up
Cancelled == tsignal /\ callerSignal = "aborted"

\* mutant of ReturnWithoutDecode: a non-success status is thrown
ReturnWithoutDecode_throwOnError(r) ==
    IF r.ok
    THEN /\ pc' = "returned"
         /\ outcome' = Fulfilled(Result(r, Null))
         /\ steps' = steps \o <<"fetch:resolve", "return">>
    ELSE /\ pc' = "threw"
         /\ outcome' = Rejected("HttpError")
         /\ steps' = steps \o <<"fetch:resolve">>

\* lines 77-101 without a decode: data is null and the Result is returned
ReturnWithoutDecode(r) ==
    /\ pc' = "returned"
    /\ outcome' = Fulfilled(Result(r, Null))
    /\ steps' = steps \o <<"fetch:resolve", "return">>

\* line 79: response.json() is called and the invocation suspends on it
StartDecode(r) ==
    /\ pc' = "decoding"
    /\ outcome' = outcome
    /\ steps' = steps \o <<"fetch:resolve", "json">>

\* fetch resolves with r (line 67) and request runs on to its next
\* suspension or to its return; no local of lines 58-75 is read again
FetchResolve ==
    /\ pc = "fetching"
    /\ ~Cancelled
    /\ \E r \in Responses :
          /\ response' = r
          /\ IF claimsJson(r) THEN StartDecode(r) ELSE ReturnWithoutDecode(r)
    /\ args' = None
    /\ inflight' = None
    /\ UNCHANGED <<callerSignal, tsignal>>

\* mutant of FetchReject: the rejection is caught and turned into an
\* Error-variant Result
FetchReject_caught ==
    /\ pc = "fetching"
    /\ pc' = "returned"
    /\ outcome' = Fulfilled([ok |-> FALSE, data |-> Null, status |-> 0,
                             statusText |-> "", headers |-> HeadersV(<<>>),
                             response |-> None])
    /\ steps' = steps \o <<"fetch:reject", "return">>
    /\ args' = None
    /\ inflight' = None
    /\ UNCHANGED <<callerSignal, tsignal, response>>

\* mutant of FetchReject: a rejected transport call is issued once more
FetchReject_retry ==
    /\ pc = "fetching"
    /\ Len(steps) < 4
    /\ steps' = steps \o <<"fetch:reject", "fetch">>
    /\ UNCHANGED <<pc, args, inflight, callerSignal, tsignal, response, outcome>>

\* fetch rejects (line 67): nothing catches it, the promise of request rejects
FetchReject ==
    /\ pc = "fetching"
    /\ pc' = "threw"
    /\ outcome' = Rejected(IF Cancelled THEN "AbortError" ELSE "TypeError")
    /\ steps' = steps \o <<"fetch:reject">>
    /\ args' = None
    /\ inflight' = None
    /\ UNCHANGED <<callerSignal, tsignal, response>>

\* response.json() fulfils (line 79) and the Result is returned (83-101)
JsonResolve ==
    /\ pc = "decoding"
    /\ JSONValid(response.body)
    /\ pc' = "returned"
    /\ outcome' = Fulfilled(Result(response, JSONparse(response.body)))
    /\ steps' = steps \o <<"json:resolve", "return">>
    /\ UNCHANGED <<args, inflight, callerSignal, tsignal, response>>

\* mutant of JsonReject: the decode failure is caught and data left null
JsonReject_caught ==
    /\ pc = "decoding"
    /\ ~JSONValid(response.body)
    /\ pc' = "returned"
    /\ outcome' = Fulfilled(Result(response, Null))
    /\ steps' = steps \o <<"json:reject", "return">>
    /\ UNCHANGED <<args, inflight, callerSignal, tsignal, response>>

\* response.json() rejects (line 79): the body is no JSON text, or the body
\* stream was aborted while it was read; nothing catches it
JsonReject ==
    /\ pc = "decoding"
    /\ \E e \in {"SyntaxError", "AbortError"} :
          /\ e = "SyntaxError" => ~JSONValid(response.body)
          /\ e = "AbortError" => Cancelled
          /\ outcome' = Rejected(e)
    /\ pc' = "threw"
    /\ steps' = steps \o <<"json:reject">>
    /\ UNCHANGED <<args, inflight, callerSignal, tsignal, response>>

\* the caller takes the settled promise; nothing is kept for the next call
Settle ==
    /\ pc \in {"returned", "threw"}
    /\ pc' = "idle"
    /\ args' = None
    /\ inflight' = None
    /\ callerSignal' = "none"
    /\ tsignal' = FALSE
    /\ response' = None
    /\ outcome' = Pending
    /\ steps' = <<>>

Next ==
    \/ get
    \/ post
    \/ put
    \/ patch
    \/ delete
    \/ Abort
    \/ FetchResolve
    \/ FetchReject
    \/ JsonResolve
    \/ JsonReject
    \/ Settle

Spec == Init /\ [][Next]_vars

(***************************************************************************)
(* Vocabulary of the properties                                            *)
(***************************************************************************)
Fetching == pc = "fetching"
Settled  == pc \in {"returned", "threw"}
Returned == outcome.t = "fulfilled"
Failed   == outcome.t = "rejected"

\* the body the caller gave: the positional one of post, put and patch, the
\* body option of get and delete
GivenBody ==
    IF args.verb \in {"get", "delete"} THEN Get(args.options, "body") ELSE args.body

NeedsJson(b) == b # Undefined /\ b # FormDataV /\ b # BlobV

\* the JSON texts of the bodies callers pass, piece by piece
ExpectedJson(b) ==
    CASE b = Null -> <<"null">>
      [] b = True -> <<"true">>
      [] b = Num(42) -> <<"42">>
      [] b = Str(<<"hi">>) -> <<"\"", "hi", "\"">>
      [] b = Obj(<< <<"name", Str(<<"Bob">>)>> >>) ->
           <<"{", "\"", "name", "\"", ":", "\"", "Bob", "\"", "}">>
      [] b = Obj(<< <<"name", Str(<<"Opt">>)>> >>) ->
           <<"{", "\"", "name", "\"", ":", "\"", "Opt", "\"", "}">>
      [] b = Arr(<< Num(1), Str(<<"a">>) >>) ->
           <<"[", "1", ",", "\"", "a", "\"", "]">>

\* header names compare without regard to case
Lower(name) ==
    CASE name = "Content-Type"  -> "content-type"
      [] name = "Authorization" -> "authorization"
      [] OTHER                  -> name

\* the headers the caller supplied, as (name, value) pairs, whichever
\* HeadersInit form they came in
CallerHeaders ==
    LET h == Get(args.options, "headers")
    IN  IF h.t = "Headers" THEN h.list ELSE OwnEntries(h)

CallerSetsContentType ==
    \E i \in 1..Len(CallerHeaders) : Lower(CallerHeaders[i][1]) = "content-type"

SentHeaders == Get(inflight.init, "headers")
SentBody    == Get(inflight.init, "body")

VerbMethod(verb) ==
    CASE verb = "get"    -> "GET"
      [] verb = "post"   -> "POST"
      [] verb = "put"    -> "PUT"
      [] verb = "patch"  -> "PATCH"
      [] verb = "delete" -> "DELETE"

(***************************************************************************)
(* C4                                                                      *)
(***************************************************************************)
\* C4: a body that is defined and neither FormData nor Blob is sent as its
\* JSON text together with the default Content-Type: application/json; an
\* undefined, FormData or Blob body is sent untouched and no application/json
\* header is injected. Serialization and injection go together.
C4_JsonBodyAndHeaderTogether ==
    Fetching =>
        LET b == GivenBody
        IN  IF NeedsJson(b)
            THEN /\ SentBody = Str(ExpectedJson(b))
                 /\ Has(SentHeaders, "Content-Type")
                 /\ ~CallerSetsContentType
                      => Get(SentHeaders, "Content-Type") = ContentTypeJson
            ELSE /\ SentBody = b
                 /\ \A i \in 1..Len(SentHeaders.entries) :
                        SentHeaders.entries[i][2] # ContentTypeJson

\* a Blob posted as is, while another call's object went out as JSON text
C4_Witness ==
    /\ Fetching
    /\ args.verb = "post"
    /\ GivenBody = BlobV
    /\ SentBody = BlobV
    /\ ~Has(SentHeaders, "Content-Type")

(***************************************************************************)
(* C5                                                                      *)
(***************************************************************************)
\* C5: when the body needs JSON encoding and the caller supplies a
\* Content-Type header, the headers handed to the transport carry the
\* caller's value and not the injected application/json, and every other
\* caller-supplied header is handed over too.
C5_CallerHeadersWin ==
    (Fetching /\ NeedsJson(GivenBody) /\ CallerSetsContentType) =>
        /\ \A i \in 1..Len(CallerHeaders) :
              Get(SentHeaders, CallerHeaders[i][1]) = CallerHeaders[i][2]
        /\ \A j \in 1..Len(SentHeaders.entries) :
              Lower(SentHeaders.entries[j][1]) = "content-type"
                  => SentHeaders.entries[j][2] # ContentTypeJson

(***************************************************************************)
(* C10                                                                     *)
(***************************************************************************)
\* C10: the transport call carries the verb's own method, every option
\* other than params, body and headers with the value the caller gave it,
\* and no params option.
C10_MethodAndPassThrough ==
    Fetching =>
        /\ Get(inflight.init, "method") = Str(<<VerbMethod(args.verb)>>)
        /\ \A k \in Keys(args.options) \ {"params", "body", "headers"} :
              Get(inflight.init, k) = Get(args.options, k)
        /\ ~Has(inflight.init, "params")
        /\ Keys(inflight.init) =
              {"method", "headers", "body"}
                  \cup (Keys(args.options) \ {"params", "body", "headers"})

\* a patch with params, a signal and a CORS mode on its way
C10_Witness ==
    /\ Fetching
    /\ args.verb = "patch"
    /\ Has(args.options, "params")
    /\ Get(inflight.init, "signal") = SignalV
    /\ Get(inflight.init, "mode") = Str(<<"cors">>)
    /\ Get(inflight.init, "method") = Str(<<"PATCH">>)

(***************************************************************************)
(* C6                                                                      *)
(***************************************************************************)
\* the entries of the params the caller passed
GivenParams == OwnEntries(Get(args.options, "params"))

\* the query entries a URL text carries
QueryOf(url) == ParseQuery(SubSeq(url, 3, Len(url)))

\* the entries of the query q that are named k
EntriesNamed(q, k) == SelectSeq(q, LAMBDA e : e[1] = k)

\* C6 as stated: the composed URL does not contain the key of any params
\* entry whose value is undefined.
C6_AbsentKeyNotInUrl ==
    Fetching =>
        \A i \in 1..Len(GivenParams) :
            GivenParams[i][2] = Undefined
                => GivenParams[i][1] \notin SeqRange(inflight.url)

\* C6, amended: buildUrl emits nothing for a params entry whose value is
\* undefined - the composed URL has exactly the query entries of that key
\* that the base URL itself carried (none, when the base had none).
C6_AbsentValueNotEmitted ==
    Fetching =>
        \A i \in 1..Len(GivenParams) :
            GivenParams[i][2] = Undefined
                => EntriesNamed(QueryOf(inflight.url), GivenParams[i][1])
                     = EntriesNamed(QueryOf(args.path), GivenParams[i][1])

\* params { role: undefined } on a base URL whose own query has a role
C6_Witness ==
    /\ Fetching
    /\ GivenParams = << <<"role", Undefined>> >>
    /\ args.path = <<"https://api.example.com/users", "?", "role", "=", "guest">>
    /\ inflight.url = args.path

(***************************************************************************)
(* C1, C2, C3, C8: the Result and the response it was made from            *)
(***************************************************************************)
\* the response declares a content-type that contains application/json
DeclaresJson ==
    /\ response.headers.list # <<>>
    /\ Includes(response.headers.list[1][2].text, JsonCT)

Success(st) == st >= 200 /\ st < 300

\* C1 as stated: a response with a non-success status always ends the call
\* with a returned Error-variant Result, whatever its content-type and body.
C1_NonSuccessAlwaysReturns ==
    (Settled /\ response # None /\ ~Success(response.status) /\ ~Cancelled) =>
        /\ Returned
        /\ outcome.value.ok = FALSE

\* C1, amended: a response with a non-success status ends the call with a
\* returned Error-variant Result whenever its content-type does not contain
\* application/json, or it does and the body decodes (valid JSON text, read
\* not aborted); only a rejected response.json() ends the call in a
\* propagated failure, and no other failure arises from the status.
C1_NonSuccessReturnsUnlessDecodeFails ==
    (Settled /\ response # None /\ ~Success(response.status)) =>
        /\ ~DeclaresJson => (Returned /\ outcome.value.ok = FALSE)
        /\ (DeclaresJson /\ JSONValid(response.body) /\ ~Cancelled)
              => (Returned /\ outcome.value.ok = FALSE)
        /\ Returned => outcome.value.ok = FALSE
        /\ Failed => (DeclaresJson /\ steps[Len(steps)] = "json:reject")

\* a 500 with an HTML body came back as an Error-variant Result
C1_Witness ==
    /\ pc = "returned"
    /\ response.status = 500
    /\ response.headers.list = << <<"content-type", Str(HtmlCT)>> >>
    /\ response.body = HtmlText
    /\ outcome.value.ok = FALSE
    /\ outcome.value.data = Null

\* C2: a returned Result has exactly the six fields of a variant, ok is the
\* response's own success flag (status in [200,300)), and status,
\* statusText, headers and response are those of the response of this call.
C2_ResultMirrorsResponse ==
    Returned =>
        LET res == outcome.value
        IN  /\ DOMAIN res = {"ok", "data", "status", "statusText", "headers", "response"}
            /\ res.ok \in BOOLEAN
            /\ res.ok = response.ok
            /\ res.ok = Success(response.status)
            /\ res.status = response.status
            /\ res.statusText = response.statusText
            /\ res.headers = response.headers
            /\ res.response = response

\* a 300 came back as an Error variant carrying its own status line
C2_Witness ==
    /\ pc = "returned"
    /\ response.status = 300
    /\ outcome.value.ok = FALSE
    /\ outcome.value.status = 300
    /\ outcome.value.statusText = "Multiple Choices"

\* C3: in every returned Result data is the decoded body when the
\* content-type contains application/json and null otherwise, whatever the
\* status.
C3_DataFollowsContentType ==
    Returned =>
        outcome.value.data =
            (IF DeclaresJson THEN JSONparse(response.body) ELSE Null)

\* a 422 with a JSON array came back decoded, with ok = false
C3_Witness ==
    /\ pc = "returned"
    /\ response.status = 422
    /\ response.body = ErrorsText
    /\ outcome.value.ok = FALSE
    /\ outcome.value.data =
          Arr(<< Obj(<< <<"field", Str(<<"name">>)>>,
                        <<"message", Str(<<"required">>)>> >>) >>)

\* C8: a response whose content-type claims JSON and whose body is no JSON
\* text ends the call in a propagated failure, for every status; no Result
\* is returned.
C8_DecodeFailurePropagates ==
    (response # None /\ DeclaresJson /\ ~JSONValid(response.body)) =>
        /\ ~Returned
        /\ Settled => (Failed /\ outcome.error \in {"SyntaxError", "AbortError"})
        /\ ~Settled => pc = "decoding"

\* a 422 that claimed JSON and carried HTML made the call fail
C8_Witness ==
    /\ pc = "threw"
    /\ response # None
    /\ response.status = 422
    /\ response.headers.list = << <<"content-type", Str(JsonCT)>> >>
    /\ response.body = HtmlText
    /\ outcome = Rejected("SyntaxError")

(***************************************************************************)
(* C7                                                                      *)
(***************************************************************************)
\* the caller cancelled the token it passed and fetch has not resolved yet
CancelledWhileFetching ==
    /\ Fetching
    /\ Has(args.options, "signal")
    /\ callerSignal = "aborted"

Count(label) == Cardinality({i \in 1..Len(steps) : steps[i] = label})

\* label a comes before label b wherever both occur
Before(a, b) ==
    \A i, j \in 1..Len(steps) : (steps[i] = a /\ steps[j] = b) => i < j

\* C9: the URL is composed before any transport call; at most one transport
\* call is issued - exactly one when a Result is returned, none when the
\* URL cannot be composed, never a second one after a rejection or a
\* non-success status; the decode starts only after the transport call
\* resolved, and the Result is made only after the decode finished.
C9_StepsInOrderAtMostOnce ==
    /\ \A l \in SeqRange(steps) : Count(l) = 1
    /\ Count("fetch") > 0 => (Len(steps) >= 2 /\ steps[1] = "buildUrl" /\ steps[2] = "fetch")
    /\ Count("buildUrl:throw") > 0 => steps = <<"buildUrl:throw">>
    /\ Returned => (Count("fetch") = 1 /\ Count("fetch:resolve") = 1 /\ Count("return") = 1)
    /\ Before("fetch", "fetch:resolve")
    /\ Before("fetch", "fetch:reject")
    /\ Before("fetch:resolve", "json")
    /\ Before("json", "json:resolve")
    /\ Before("json", "json:reject")
    /\ Before("json:resolve", "return")
    /\ Before("fetch:resolve", "return")
    /\ (Count("json") > 0 /\ Count("return") > 0) => Count("json:resolve") = 1
    /\ (Count("fetch:reject") > 0 \/ Count("json:reject") > 0)
          => (Failed /\ Count("return") = 0)
    /\ Count("fetch:reject") > 0 => Count("fetch:resolve") = 0
    /\ (Count("return") > 0) = Returned

\* a decoded Result: compose, fetch, resolve, decode, decoded, return
C9_Witness ==
    /\ pc = "returned"
    /\ steps = <<"buildUrl", "fetch", "fetch:resolve", "json", "json:resolve", "return">>
    /\ ~response.ok

=============================================================================
